---------------------------- MODULE Spec2Model ----------------------------
(***************************************************************************)
(* A model of toolbox/ui.py, the control panel (class UI) of the voice      *)
(* cloning toolbox: the log buffer, the utterance history, the dataset /    *)
(* speaker / utterance browser, the combo-box helper repopulate_box and     *)
(* the UMAP flag.                                                           *)
(*                                                                          *)
(* Text is a sequence of character codes, so that slicing, concatenation   *)
(* and wrapping are computed on characters as Python computes them.         *)
(* A QComboBox is a record [items, index, blocked, disabled]; each item is  *)
(* a record [text, data].                                                   *)
(***************************************************************************)
EXTENDS Integers, Sequences, FiniteSets, TLC

VARIABLES
    logs,               \* self.logs: the list of log lines
    log_window,         \* the text of self.log_window (QLabel)
    pushed,             \* ghost: the lines the last call of log appended to self.logs
    op,                 \* ghost: the last call and its arguments
    pre,                \* ghost: the state the last call started from
    raised,             \* ghost: whether the last call raised an exception
    calls,              \* ghost: the number of calls made so far
    utterance_history,  \* self.utterance_history (QComboBox)
    dataset_box,        \* self.dataset_box (QComboBox)
    speaker_box,        \* self.speaker_box (QComboBox)
    utterance_box,      \* self.utterance_box (QComboBox)
    box,                \* a QComboBox handed to the static repopulate_box
    disabled,           \* the disabled flag of each button / checkbox of the panel
    record_text,        \* the text of self.record_button
    umap_hot,           \* self.umap_hot
    loading_bar,        \* self.loading_bar: [value, maximum, text_visible]
    first_time_logs,    \* ghost: how often the "first time" UMAP message was logged
    fs,                 \* the file tree under datasets_root
    registered,         \* ghost: every utterance registered so far, the newest first
    speaker_encoder_box,    \* self.speaker_encoder_box (QComboBox)
    emotion_encoder_box,    \* self.emotion_encoder_box (QComboBox)
    synthesizer_box,        \* self.synthesizer_box (QComboBox)
    vocoder_box             \* self.vocoder_box (QComboBox)

vars == <<logs, log_window, pushed, op, pre, raised, calls, utterance_history,
          dataset_box, speaker_box, utterance_box, box, disabled, record_text,
          umap_hot, loading_bar, first_time_logs, fs, registered,
          speaker_encoder_box, emotion_encoder_box, synthesizer_box, vocoder_box>>

\* the four model selection lists
model_boxes == <<speaker_encoder_box, emotion_encoder_box, synthesizer_box, vocoder_box>>

-----------------------------------------------------------------------------
(* Program constants: the class attributes of UI.                          *)

min_umap_points == 4

max_log_lines == 5

max_log_width == 100

max_saved_utterances == 20

\* the number of rows of colormap
colormap_rows == 14

-----------------------------------------------------------------------------
(* Bounds of the model.                                                     *)

\* calls of UI.log in one behaviour of SpecLog
MaxLogCalls == 3

\* the longest logged line has MaxChunks * max_log_width + 1 characters
MaxChunks == 5

\* the Utterance objects made in one behaviour of SpecHistory
MaxUtterances == 21

\* the registrations of an utterance that is already in the history
MaxRepeats == 1

\* the selections the user makes in the history box
MaxSelects == 1

\* the longest list of items handed to repopulate_box in SpecBox
MaxItems == 2

\* the most utterances handed to draw_umap_projections in SpecUmap
MaxPoints == 16

-----------------------------------------------------------------------------
(* Python values.                                                           *)

None == [none |-> TRUE]

Min(a, b) == IF a < b THEN a ELSE b

Max(a, b) == IF a > b THEN a ELSE b

\* s[start:stop] for a sequence s, indices counted from 0: a negative index
\* counts from the end, and both are clamped to 0..len(s)
PySlice(s, start, stop) ==
    LET n  == Len(s)
        a0 == IF start < 0 THEN start + n ELSE start
        b0 == IF stop < 0 THEN stop + n ELSE stop
        a  == Max(0, Min(a0, n))
        b  == Max(0, Min(b0, n))
    IN  IF a >= b THEN <<>> ELSE SubSeq(s, a + 1, b)

\* the character '\n'
NewlineChar == 0

\* sep.join(parts)
RECURSIVE Join(_, _)
Join(sep, parts) ==
    IF parts = <<>> THEN <<>>
    ELSE IF Len(parts) = 1 THEN parts[1]
    ELSE parts[1] \o sep \o Join(sep, Tail(parts))

\* the concatenation of a list of strings
RECURSIVE Concat(_)
Concat(parts) == IF parts = <<>> THEN <<>> ELSE parts[1] \o Concat(Tail(parts))

\* a text of n characters, all different, the first of them code base + 1
Text(base, n) == [i \in 1..n |-> base + i]

-----------------------------------------------------------------------------
(* UI.log                                                                   *)

\* self.logs.append(x), recorded in the ghost list of appended lines
LogsAppend(st, x) ==
    [logs |-> Append(st.logs, x), pushed |-> Append(st.pushed, x)]

\* LogsTrim with the wrong end evicted: del self.logs[-1]
LogsTrimNewest(st) ==
    IF Len(st.logs) > max_log_lines
    THEN [st EXCEPT !.logs = SubSeq(st.logs, 1, Len(st.logs) - 1)]
    ELSE st

\* if len(self.logs) > self.max_log_lines: del self.logs[0]
LogsTrim(st) ==
    IF Len(st.logs) > max_log_lines
    THEN [st EXCEPT !.logs = Tail(st.logs)]
    ELSE st

\* the chunk appended by iteration l of the wrapping loop
WrapChunk(line, l) == PySlice(line, l * max_log_width, (l + 1) * max_log_width)

\* the last piece appended after the wrapping loop
WrapRest(line, res) == PySlice(line, 0 - res - 1, Len(line))

\* for l in range(num_lines): append a chunk, evict when over max_log_lines
RECURSIVE WrapLoop(_, _, _, _)
WrapLoop(st, line, l, num_lines) ==
    IF l >= num_lines THEN st
    ELSE WrapLoop(LogsTrim(LogsAppend(st, WrapChunk(line, l))), line, l + 1, num_lines)

\* LogNewline with the last eviction left to the branch of short lines
LogNewlineNoLastTrim(st, line) ==
    IF Len(line) > max_log_width
    THEN LET num_lines == Len(line) \div max_log_width
             res       == Len(line) - (Len(line) \div max_log_width) * max_log_width
         IN  LogsAppend(WrapLoop(st, line, 0, num_lines), WrapRest(line, res))
    ELSE LogsTrim(LogsAppend(st, line))

\* the branch mode == "newline"
LogNewline(st, line) ==
    IF Len(line) > max_log_width
    THEN LET num_lines == Len(line) \div max_log_width
             res       == Len(line) - (Len(line) \div max_log_width) * max_log_width
         IN  LogsTrim(LogsAppend(WrapLoop(st, line, 0, num_lines), WrapRest(line, res)))
    ELSE LogsTrim(LogsAppend(st, line))

\* LogAppendMode on the wrong line: self.logs[0] += line
LogAppendModeFirst(st, line) ==
    [st EXCEPT !.logs = [st.logs EXCEPT ![1] = st.logs[1] \o line]]

\* self.logs[-1] += line
LogAppendMode(st, line) ==
    [st EXCEPT !.logs = [st.logs EXCEPT ![Len(st.logs)] = st.logs[Len(st.logs)] \o line]]

\* self.logs[-1] = line
LogOverwriteMode(st, line) ==
    [st EXCEPT !.logs = [st.logs EXCEPT ![Len(st.logs)] = line]]

\* self.logs[-1] raises IndexError on an empty list
LogRaises(l, mode) == mode \in {"append", "overwrite"} /\ l = <<>>

\* the list self.logs, and the lines appended, when log(line, mode) returns
LogResult(l, line, mode) ==
    LET st == [logs |-> l, pushed |-> <<>>]
    IN  IF mode = "newline" THEN LogNewline(st, line)
        ELSE IF mode = "append" THEN LogAppendMode(st, line)
        ELSE IF mode = "overwrite" THEN LogOverwriteMode(st, line)
        ELSE st

\* log_text = '\n'.join(self.logs)
LogText(l) == Join(<<NewlineChar>>, l)


-----------------------------------------------------------------------------
(* QComboBox, as far as the panel uses it.                                  *)

\* QComboBox(): no item, no current index, enabled, signals not blocked
EmptyBox == [items |-> <<>>, index |-> -1, blocked |-> FALSE, disabled |-> FALSE]

\* len(box)
BoxCount(b) == Len(b.items)

\* box.blockSignals(flag)
BoxBlockSignals(b, flag) == [b EXCEPT !.blocked = flag]

\* box.setDisabled(flag)
BoxSetDisabled(b, flag) == [b EXCEPT !.disabled = flag]

\* box.clear(): no item is left and there is no current index
BoxClear(b) == [b EXCEPT !.items = <<>>, !.index = -1]

\* box.insertItem(i, text, data): i is clamped to 0..count; the first item of an
\* empty box becomes current, otherwise the current item stays the current one
BoxInsertItem(b, i, text, data) ==
    LET at   == Max(0, Min(i, BoxCount(b)))
        item == [text |-> text, data |-> data]
    IN  [b EXCEPT
            !.items = SubSeq(b.items, 1, at) \o <<item>> \o SubSeq(b.items, at + 1, BoxCount(b)),
            !.index = IF BoxCount(b) = 0 THEN 0
                      ELSE IF b.index >= at THEN b.index + 1
                      ELSE b.index]

\* box.addItem(text, data)
BoxAddItem(b, text, data) == BoxInsertItem(b, BoxCount(b), text, data)

\* box.setCurrentIndex(i): an index that names no item leaves no current item
BoxSetCurrentIndex(b, i) ==
    [b EXCEPT !.index = IF i >= 0 /\ i < BoxCount(b) THEN i ELSE -1]

\* box.removeItem(i): nothing when i names no item; the current item stays the
\* current one unless it is the one removed
BoxRemoveItem(b, i) ==
    IF i < 0 \/ i >= BoxCount(b) THEN b
    ELSE [b EXCEPT
            !.items = SubSeq(b.items, 1, i) \o SubSeq(b.items, i + 2, BoxCount(b)),
            !.index = IF b.index > i THEN b.index - 1
                      ELSE IF b.index = i THEN Min(BoxCount(b) - 2, b.index)
                      ELSE b.index]

\* box.itemData(i): None when i names no item
BoxItemData(b, i) ==
    IF i >= 0 /\ i < BoxCount(b) THEN b.items[i + 1].data ELSE None

\* box.currentText(): the empty string when there is no current item
BoxCurrentText(b) ==
    IF b.index >= 0 /\ b.index < BoxCount(b) THEN b.items[b.index + 1].text ELSE <<>>

-----------------------------------------------------------------------------
(* Strings and paths. A string is a sequence of characters; here a character *)
(* is a token such as "s1", "." or "/". A path (pathlib.Path, relative to    *)
(* datasets_root) is a sequence of names, each name a string.                *)

Slash == "/"

Dot == "."

\* str(path): the names joined by "/"
PathStr(path) == Join(<<Slash>>, path)

\* the names of the path a string denotes: its parts between "/", the empty
\* parts dropped
RECURSIVE SplitPath(_, _)
SplitPath(text, name) ==
    IF text = <<>> THEN (IF name = <<>> THEN <<>> ELSE <<name>>)
    ELSE IF Head(text) = Slash
         THEN (IF name = <<>> THEN <<>> ELSE <<name>>) \o SplitPath(Tail(text), <<>>)
         ELSE SplitPath(Tail(text), Append(name, Head(text)))

\* path.joinpath(text)
JoinPath(path, text) == path \o SplitPath(text, <<>>)

\* the position of the last "." of a name, 0 when it has none
RECURSIVE LastDot(_, _)
LastDot(name, i) ==
    IF i = 0 THEN 0 ELSE IF name[i] = Dot THEN i ELSE LastDot(name, i - 1)

\* path.stem: the last name without its suffix; a "." that starts or ends the
\* name starts no suffix
Stem(name) ==
    LET i == LastDot(name, Len(name))
    IN  IF i > 1 /\ i < Len(name) THEN SubSeq(name, 1, i - 1) ELSE name

\* whether a name matches the pattern "*.<extension>"
HasExtension(name, extension) ==
    /\ Len(name) >= 2
    /\ name[Len(name)] = extension
    /\ name[Len(name) - 1] = Dot

\* A value handed to str(): a string or a Path.
StrValue(text) == [type |-> "str", text |-> text]

PathValue(path) == [type |-> "path", path |-> path]

\* str(value)
Str(v) == IF v.type = "path" THEN PathStr(v.path) ELSE v.text

-----------------------------------------------------------------------------
(* UI.repopulate_box                                                        *)

\* An item of the list handed to repopulate_box: a tuple, or anything else.
\* elems is list(item) for a tuple and [item] otherwise.
PlainItem(v) == [tuple |-> FALSE, elems |-> <<v>>]

TupleItem(es) == [tuple |-> TRUE, elems |-> es]

\* box.addItem(str(item[0]), *item[1:]) raises for an empty tuple (item[0])
\* and for more than one value after the text (no such overload of addItem)
AddItemRaises(item) == Len(item.elems) = 0 \/ Len(item.elems) > 2

\* box.addItem(str(item[0]), *item[1:])
AddItemOf(b, item) ==
    BoxAddItem(b, Str(item.elems[1]),
               IF Len(item.elems) = 2 THEN item.elems[2] ELSE None)

\* for item in items: ...; the box so far and whether an addItem raised
RECURSIVE AddItems(_, _, _)
AddItems(b, items, i) ==
    IF i > Len(items) THEN [box |-> b, raised |-> FALSE]
    ELSE IF AddItemRaises(items[i]) THEN [box |-> b, raised |-> TRUE]
    ELSE AddItems(AddItemOf(b, items[i]), items, i + 1)

\* the values of np.random.randint(n) if random else 0
IndexChoices(n, random) == IF random THEN 0..(n - 1) ELSE {0}

\* repopulate_box without box.clear()
RepopulateBoxNoClear(b, items, random) ==
    LET added == AddItems(BoxBlockSignals(b, TRUE), items, 1)
    IN  IF added.raised THEN {added}
        ELSE { [box |-> BoxBlockSignals(
                            BoxSetDisabled(
                                IF Len(items) > 0 THEN BoxSetCurrentIndex(added.box, i)
                                                  ELSE added.box,
                                Len(items) = 0),
                            FALSE),
                raised |-> FALSE] : i \in IndexChoices(Max(Len(items), 1), random) }

\* repopulate_box(box, items, random): the outcomes [box, raised], one for
\* every index the random choice can give
RepopulateBox(b, items, random) ==
    LET added == AddItems(BoxClear(BoxBlockSignals(b, TRUE)), items, 1)
    IN  IF added.raised THEN {added}
        ELSE { [box |-> BoxBlockSignals(
                            BoxSetDisabled(
                                IF Len(items) > 0 THEN BoxSetCurrentIndex(added.box, i)
                                                  ELSE added.box,
                                Len(items) = 0),
                            FALSE),
                raised |-> FALSE] : i \in IndexChoices(Max(Len(items), 1), random) }

-----------------------------------------------------------------------------
(* UI.set_loading                                                           *)

\* QProgressBar(): range 0..100, no value yet
NewLoadingBar == [value |-> -1, minimum |-> 0, maximum |-> 100, text_visible |-> TRUE]

\* QProgressBar.setValue: a value outside the range is ignored
BarSetValue(bar, v) ==
    IF (v > bar.maximum \/ v < bar.minimum) /\ (bar.maximum # 0 \/ bar.minimum # 0)
    THEN bar
    ELSE [bar EXCEPT !.value = v]

\* QProgressBar.setMaximum: a value left outside the new range is reset
BarSetMaximum(bar, m) ==
    LET lo == Min(bar.minimum, m)
    IN  [bar EXCEPT !.minimum = lo, !.maximum = m,
                    !.value = IF bar.value < lo - 1 \/ bar.value > m THEN lo - 1 ELSE bar.value]

\* set_loading(value, maximum)
SetLoading(bar, value, maximum) ==
    [BarSetMaximum(BarSetValue(bar, value * 100), maximum * 100)
        EXCEPT !.text_visible = (value # 0)]

\* for i = from .. n: set_loading(i, n)
RECURSIVE SetLoadingLoop(_, _, _)
SetLoadingLoop(bar, from, n) ==
    IF from > n THEN bar ELSE SetLoadingLoop(SetLoading(bar, from, n), from + 1, n)

-----------------------------------------------------------------------------
(* UI.draw_umap_projections                                                 *)

\* "Drawing UMAP projections for the first time, this will take a few seconds."
UmapMessage == Text(1000, 74)

\* One half of draw_umap_projections (the speaker half, then the emotion half),
\* for n utterances of k different speakers. st = [umap_hot, logs, log_window,
\* bar, first, raised]. colormap[i] raises IndexError for a speaker beyond the
\* rows of colormap; fails says that reducer.fit_transform raises.
UmapHalf(st, n, k, fails) ==
    IF k > colormap_rows THEN [st EXCEPT !.raised = TRUE]
    ELSE IF n < min_umap_points THEN st
    ELSE LET new == LogResult(st.logs, UmapMessage, "newline").logs
             st1 == IF ~st.umap_hot
                    THEN [st EXCEPT !.logs = new, !.log_window = LogText(new),
                                    !.first = st.first + 1, !.umap_hot = TRUE]
                    ELSE st
         IN  IF fails THEN [st1 EXCEPT !.raised = TRUE]
             ELSE [st1 EXCEPT !.bar = SetLoading(SetLoadingLoop(st1.bar, 1, n), 0, 1)]

\* draw_umap_projections(utterances): fail is "speaker" or "emotion" when the
\* projection of that half raises, "none" otherwise
DrawUmap(st, n, k, fail) ==
    LET half == UmapHalf(st, n, k, fail = "speaker")
    IN  IF half.raised THEN half ELSE UmapHalf(half, n, k, fail = "emotion")

-----------------------------------------------------------------------------
(* UI.reset_interface and UI.__init__                                       *)

Buttons == {"play_button", "generate_button", "synthesize_button", "vocode_button",
            "replay_wav_button", "export_wav_button", "browser_load_button",
            "random_utterance_button", "random_speaker_button",
            "random_dataset_button", "auto_next_checkbox", "record_button"}

\* the buttons reset_interface disables
ResetButtons == {"play_button", "generate_button", "synthesize_button",
                 "vocode_button", "replay_wav_button", "export_wav_button"}

\* [self.log("") for _ in range(times)]
RECURSIVE LogTimes(_, _, _)
LogTimes(l, line, times) ==
    IF times <= 0 THEN l
    ELSE LogTimes(LogResult(l, line, "newline").logs, line, times - 1)

\* reset_interface without its last statement, the max_log_lines empty lines
ResetInterfaceNoLines(st) ==
    LET drawn == DrawUmap(st, 0, 0, "none")
    IN  [drawn EXCEPT !.bar = SetLoading(drawn.bar, 0, 1)]

\* reset_interface, on st = [umap_hot, logs, log_window, bar, first, raised]
ResetInterface(st) ==
    LET drawn == DrawUmap(st, 0, 0, "none")
        final == LogTimes(drawn.logs, <<>>, max_log_lines)
    IN  [drawn EXCEPT !.bar = SetLoading(drawn.bar, 0, 1),
                      !.logs = final, !.log_window = LogText(final)]

\* the fields as the body of __init__ sets them, before it calls reset_interface
Fresh == [umap_hot |-> FALSE, logs |-> <<>>, log_window |-> <<>>,
          bar |-> NewLoadingBar, first |-> 0, raised |-> FALSE]

\* the state when UI() returns, over the file tree t
Constructed(t) ==
    LET st == ResetInterface(Fresh)
    IN  /\ logs = st.logs
        /\ log_window = st.log_window
        /\ umap_hot = st.umap_hot
        /\ loading_bar = st.bar
        /\ first_time_logs = st.first
        /\ disabled = [b \in Buttons |-> b \in ResetButtons]
        /\ record_text = "Record"
        /\ utterance_history = EmptyBox
        /\ dataset_box = EmptyBox
        /\ speaker_box = EmptyBox
        /\ utterance_box = EmptyBox
        /\ box = EmptyBox
        /\ speaker_encoder_box = EmptyBox
        /\ emotion_encoder_box = EmptyBox
        /\ synthesizer_box = EmptyBox
        /\ vocoder_box = EmptyBox
        /\ fs = t
        /\ registered = <<>>
        /\ pushed = <<>>
        /\ op = [name |-> "__init__"]
        /\ pre = [name |-> "__init__"]
        /\ raised = FALSE
        /\ calls = 0

\* an empty directory datasets_root
NoFiles == [given |-> TRUE, entries |-> {}]

\* datasets_root = None
NoRoot == [given |-> FALSE, entries |-> {}]

-----------------------------------------------------------------------------
(* The log buffer: calls of log and of reset_interface.                     *)

Modes == {"newline", "append", "overwrite"}

\* the lengths of the lines logged
LogLengths == {0, 1, max_log_width, max_log_width + 1, 2 * max_log_width + 50,
               MaxChunks * max_log_width, MaxChunks * max_log_width + 1}

\* self.log(line, mode)
Log(line, mode) ==
    /\ op' = [name |-> "log", line |-> line, mode |-> mode]
    /\ pre' = [logs |-> logs]
    /\ calls' = calls + 1
    /\ IF LogRaises(logs, mode)
       THEN /\ raised' = TRUE
            /\ pushed' = <<>>
            /\ UNCHANGED <<logs, log_window>>
       ELSE LET st == LogResult(logs, line, mode)
            IN  /\ raised' = FALSE
                /\ logs' = st.logs
                /\ pushed' = st.pushed
                /\ log_window' = LogText(st.logs)
    /\ UNCHANGED <<utterance_history, dataset_box, speaker_box, utterance_box, box,
                   disabled, record_text, umap_hot, loading_bar, first_time_logs, fs,
                   registered, model_boxes>>

LogCall ==
    /\ calls < MaxLogCalls
    /\ \E len \in LogLengths, mode \in Modes : Log(Text(0, len), mode)

\* self.reset_interface()
ResetInterfaceCall ==
    LET st == ResetInterface([umap_hot |-> umap_hot, logs |-> logs,
                              log_window |-> log_window, bar |-> loading_bar,
                              first |-> first_time_logs, raised |-> FALSE])
    IN  /\ calls < MaxLogCalls
        /\ op' = [name |-> "reset_interface"]
        /\ pre' = [logs |-> logs, umap_hot |-> umap_hot]
        /\ calls' = calls + 1
        /\ raised' = st.raised
        /\ pushed' = <<>>
        /\ logs' = st.logs
        /\ log_window' = st.log_window
        /\ umap_hot' = st.umap_hot
        /\ loading_bar' = st.bar
        /\ first_time_logs' = st.first
        /\ disabled' = [b \in Buttons |-> IF b \in ResetButtons THEN TRUE ELSE disabled[b]]
        /\ UNCHANGED <<utterance_history, dataset_box, speaker_box, utterance_box, box,
                       record_text, fs, registered, model_boxes>>

InitLog == Constructed(NoFiles)

NextLog == LogCall \/ ResetInterfaceCall

SpecLog == InitLog /\ [][NextLog]_vars

-----------------------------------------------------------------------------
(* The utterance history: UI.register_utterance and UI.selected_utterance.  *)

\* the k-th Utterance object the loader / recorder makes; different
\* utterances may carry the same name
Utterance(k) == [id |-> k, name |-> Text(2000 + 10 * (k % 3), 2)]

\* register_utterance without the call setCurrentIndex(0)
RegisterUtteranceKeepIndex(h, u) ==
    LET inserted == BoxBlockSignals(BoxInsertItem(BoxBlockSignals(h, TRUE), 0, u.name, u), FALSE)
    IN  IF BoxCount(inserted) > max_saved_utterances
        THEN BoxRemoveItem(inserted, max_saved_utterances)
        ELSE inserted

\* register_utterance removing the item after the one it should remove
RegisterUtteranceRemoveNext(h, u) ==
    LET inserted == BoxBlockSignals(
                        BoxSetCurrentIndex(
                            BoxInsertItem(BoxBlockSignals(h, TRUE), 0, u.name, u), 0),
                        FALSE)
    IN  IF BoxCount(inserted) > max_saved_utterances
        THEN BoxRemoveItem(inserted, max_saved_utterances + 1)
        ELSE inserted

\* the box self.utterance_history when register_utterance(u) returns
RegisterUtterance(h, u) ==
    LET inserted == BoxBlockSignals(
                        BoxSetCurrentIndex(
                            BoxInsertItem(BoxBlockSignals(h, TRUE), 0, u.name, u), 0),
                        FALSE)
    IN  IF BoxCount(inserted) > max_saved_utterances
        THEN BoxRemoveItem(inserted, max_saved_utterances)
        ELSE inserted

\* self.selected_utterance
SelectedUtterance(h) == BoxItemData(h, h.index)

\* the number of Utterance objects made so far
UtterancesMade == Cardinality({registered[i].id : i \in 1..Len(registered)})

\* self.register_utterance(u)
RegisterUtteranceCall(u) ==
    /\ op' = [name |-> "register_utterance", utterance |-> u]
    /\ pre' = [utterance_history |-> utterance_history]
    /\ calls' = calls + 1
    /\ raised' = FALSE
    /\ utterance_history' = RegisterUtterance(utterance_history, u)
    /\ registered' = <<u>> \o registered
    /\ disabled' = [disabled EXCEPT !["play_button"] = FALSE,
                                    !["generate_button"] = FALSE,
                                    !["synthesize_button"] = FALSE]
    /\ UNCHANGED <<logs, log_window, pushed, dataset_box, speaker_box, utterance_box,
                   box, record_text, umap_hot, loading_bar, first_time_logs, fs, model_boxes>>

\* a new utterance is loaded, recorded or generated, and registered
RegisterNew ==
    /\ UtterancesMade < MaxUtterances
    /\ RegisterUtteranceCall(Utterance(UtterancesMade + 1))

\* an utterance of the history (its first, its current or its last one) is
\* registered once more
RegisterAgain ==
    /\ Len(registered) - UtterancesMade < MaxRepeats
    /\ \E i \in {0, utterance_history.index, BoxCount(utterance_history) - 1} :
          /\ i >= 0 /\ i < BoxCount(utterance_history)
          /\ RegisterUtteranceCall(BoxItemData(utterance_history, i))

\* the user picks an item of the history box
SelectInHistory ==
    /\ calls - Len(registered) < MaxSelects
    /\ \E i \in {1, BoxCount(utterance_history) \div 2, BoxCount(utterance_history) - 1} :
          /\ i >= 0 /\ i < BoxCount(utterance_history)
          /\ i # utterance_history.index
          /\ utterance_history' = BoxSetCurrentIndex(utterance_history, i)
          /\ op' = [name |-> "select", index |-> i]
          /\ pre' = [utterance_history |-> utterance_history]
    /\ calls' = calls + 1
    /\ raised' = FALSE
    /\ UNCHANGED <<logs, log_window, pushed, dataset_box, speaker_box, utterance_box,
                   box, disabled, record_text, umap_hot, loading_bar, first_time_logs,
                   fs, registered, model_boxes>>

InitHistory == Constructed(NoFiles)

NextHistory == RegisterNew \/ RegisterAgain \/ SelectInHistory

SpecHistory == InitHistory /\ [][NextHistory]_vars

-----------------------------------------------------------------------------
(* A combo box handed to repopulate_box.                                    *)

\* the items tried: a Path, an (item, data) pair, and a tuple that addItem
\* cannot take
SomeItems ==
    { PlainItem(PathValue(<<<<"d">>, <<"b", Dot, "wav">>>>)),
      TupleItem(<<StrValue(<<"a">>), PathValue(<<<<"m">>, <<"a", Dot, "pt">>>>)>>),
      TupleItem(<<StrValue(<<"t">>), None, None>>) }

\* the lists of at most n of these items
ItemLists(n) == UNION { [1..k -> SomeItems] : k \in 0..n }

\* UI.repopulate_box(box, items, random)
RepopulateBoxCall ==
    \E items \in ItemLists(MaxItems), random \in BOOLEAN :
      \E out \in RepopulateBox(box, items, random) :
        /\ box' = out.box
        /\ raised' = out.raised
        /\ op' = [name |-> "repopulate_box", items |-> items, random |-> random]
        /\ pre' = [box |-> box]
        /\ calls' = calls
        /\ UNCHANGED <<logs, log_window, pushed, utterance_history, dataset_box,
                       speaker_box, utterance_box, disabled, record_text, umap_hot,
                       loading_bar, first_time_logs, fs, registered, model_boxes>>

InitBox == Constructed(NoFiles)

NextBox == RepopulateBoxCall

SpecBox == InitBox /\ [][NextBox]_vars

-----------------------------------------------------------------------------
(* The file tree under datasets_root: [given, entries], given saying that   *)
(* datasets_root is not None and entries the set of its files and           *)
(* directories [path, dir], path relative to datasets_root, closed under    *)
(* parents.                                                                 *)

\* path.exists(); datasets_root itself exists
Exists(tree, path) == path = <<>> \/ \E e \in tree.entries : e.path = path

\* path.is_dir()
IsDir(tree, path) == path = <<>> \/ \E e \in tree.entries : e.path = path /\ e.dir

\* whether path q lies under path p, at any depth
Under(p, q) == Len(q) > Len(p) /\ SubSeq(q, 1, Len(p)) = p

\* the set path.glob("*") yields
GlobChildren(tree, p) ==
    IF IsDir(tree, p)
    THEN { e.path : e \in { x \in tree.entries : Under(p, x.path) /\ Len(x.path) = Len(p) + 1 } }
    ELSE {}

\* the set path.glob("**/*.<extension>") yields
GlobExtension(tree, p, extension) ==
    IF IsDir(tree, p)
    THEN { e.path : e \in { x \in tree.entries : /\ Under(p, x.path)
                                         /\ HasExtension(x.path[Len(x.path)], extension) } }
    ELSE {}

\* q.relative_to(p)
RelativeTo(q, p) == SubSeq(q, Len(p) + 1, Len(q))

\* the orders in which a glob can yield the paths of a set
Orders(S) ==
    { o \in [1..Cardinality(S) -> S] : \A i, j \in 1..Cardinality(S) : o[i] = o[j] => i = j }

\* ['mp3', 'flac', 'wav', 'm4a']
Extensions == <<"mp3", "flac", "wav", "m4a">>

\* the lists `utterances` can be: for each extension in turn, what the glob
\* under utterances_root yields, each path relative to utterances_root
UtteranceLists(tree, root) ==
    { [i \in 1..Len(l) |-> PlainItem(PathValue(RelativeTo(l[i], root)))] :
        l \in { o1 \o o2 \o o3 \o o4 :
                  o1 \in Orders(GlobExtension(tree, root, Extensions[1])),
                  o2 \in Orders(GlobExtension(tree, root, Extensions[2])),
                  o3 \in Orders(GlobExtension(tree, root, Extensions[3])),
                  o4 \in Orders(GlobExtension(tree, root, Extensions[4])) } }

\* the lists `speaker_names` can be: the stems of the directories the glob
\* under speakers_root yields
SpeakerLists(tree, root) ==
    { [i \in 1..Len(o) |-> PlainItem(StrValue(Stem(o[i][Len(o[i])])))] :
        o \in Orders({ q \in GlobChildren(tree, root) : IsDir(tree, q) }) }

\* the list `datasets`: the recognized datasets that exist, as paths relative
\* to datasets_root
RECURSIVE ExistingDatasets(_, _)
ExistingDatasets(tree, recognized) ==
    IF recognized = <<>> THEN <<>>
    ELSE (IF Exists(tree, JoinPath(<<>>, Head(recognized)))
          THEN <<PlainItem(PathValue(JoinPath(<<>>, Head(recognized))))>>
          ELSE <<>>) \o ExistingDatasets(tree, Tail(recognized))

-----------------------------------------------------------------------------
(* UI.populate_browser                                                      *)

\* the warning logged when no dataset can be listed: "Warning: you did not
\* pass a root directory for datasets as argument", or "Warning: you do not
\* have any of the recognized datasets in <datasets_root>"
BrowserWarning(tree) == IF ~tree.given THEN Text(3000, 67) ELSE Text(4000, 59 + 12)

\* what populate_browser disables when no dataset can be listed
BrowserButtons == {"random_utterance_button", "random_speaker_button",
                   "random_dataset_button", "browser_load_button", "auto_next_checkbox"}

\* The part `if level <= 0`. st = [dataset_box, speaker_box, utterance_box,
\* disabled, logs, log_window, status], status one of "run", "return", "raise".
BrowserDatasets(st, tree, recognized, level, random) ==
    IF level > 0 THEN {st}
    ELSE LET datasets == IF ~tree.given THEN <<>> ELSE ExistingDatasets(tree, recognized)
             st1 == IF ~tree.given THEN st
                    ELSE [st EXCEPT !.disabled["browser_load_button"] = (Len(datasets) = 0)]
             new == LogResult(st.logs, BrowserWarning(tree), "newline").logs
         IN  IF ~tree.given \/ Len(datasets) = 0
             THEN { [st1 EXCEPT
                       !.logs = new,
                       !.log_window = LogText(new),
                       !.disabled = [b \in Buttons |->
                                        IF b \in BrowserButtons THEN TRUE ELSE st1.disabled[b]],
                       !.utterance_box = BoxSetDisabled(st.utterance_box, TRUE),
                       !.speaker_box = BoxSetDisabled(st.speaker_box, TRUE),
                       !.dataset_box = BoxSetDisabled(st.dataset_box, TRUE),
                       !.status = "return"] }
             ELSE { [st1 EXCEPT !.dataset_box = out.box,
                                !.status = IF out.raised THEN "raise" ELSE "run"] :
                      out \in RepopulateBox(st.dataset_box, datasets, random) }

\* The part `if level <= 1`; datasets_root.joinpath raises when datasets_root
\* is None.
BrowserSpeakers(st, tree, level, random) ==
    IF level > 1 THEN {st}
    ELSE IF ~tree.given THEN {[st EXCEPT !.status = "raise"]}
    ELSE LET speakers_root == JoinPath(<<>>, BoxCurrentText(st.dataset_box))
         IN  { [st EXCEPT !.speaker_box = out.box,
                          !.status = IF out.raised THEN "raise" ELSE "run"] :
                 out \in UNION { RepopulateBox(st.speaker_box, speaker_names, random) :
                                   speaker_names \in SpeakerLists(tree, speakers_root) } }

\* The part `if level <= 2`.
BrowserUtterances(st, tree, level, random) ==
    IF level > 2 THEN {st}
    ELSE IF ~tree.given THEN {[st EXCEPT !.status = "raise"]}
    ELSE LET utterances_root == JoinPath(JoinPath(<<>>, BoxCurrentText(st.dataset_box)),
                                         BoxCurrentText(st.speaker_box))
         IN  { [st EXCEPT !.utterance_box = out.box,
                          !.status = IF out.raised THEN "raise" ELSE "run"] :
                 out \in UNION { RepopulateBox(st.utterance_box, utterances, random) :
                                   utterances \in UtteranceLists(tree, utterances_root) } }

\* one part after another, as long as the call has neither returned nor raised
Then(states, Part(_)) ==
    UNION { IF st.status = "run" THEN Part(st) ELSE {st} : st \in states }

\* populate_browser with the speaker list filled before the dataset list
PopulateBrowserSpeakersFirst(st, tree, recognized, level, random) ==
    LET Datasets(x)   == BrowserDatasets(x, tree, recognized, level, random)
        Speakers(x)   == BrowserSpeakers(x, tree, level, random)
        Utterances(x) == BrowserUtterances(x, tree, level, random)
    IN  Then(Then(Then({st}, Speakers), Datasets), Utterances)

\* populate_browser(datasets_root, recognized_datasets, level, random): the
\* outcomes, one for every order of the globs and every random index
PopulateBrowser(st, tree, recognized, level, random) ==
    LET Datasets(x)   == BrowserDatasets(x, tree, recognized, level, random)
        Speakers(x)   == BrowserSpeakers(x, tree, level, random)
        Utterances(x) == BrowserUtterances(x, tree, level, random)
    IN  Then(Then(Then({st}, Datasets), Speakers), Utterances)

\* the list recognized_datasets the toolbox passes
RecognizedDatasets == << <<"d1">>, <<"d2", Slash, "c">>, <<"d3">> >>

F(path) == [path |-> path, dir |-> FALSE]

D(path) == [path |-> path, dir |-> TRUE]

\* A file tree: dataset d1 with the speakers s1 (two wav files) and s2.x (a
\* directory whose name has a suffix), dataset d2/c with no speaker directory
\* and one file; d3 does not exist.
SomeFiles == [given |-> TRUE, entries |->
    { D(<< <<"d1">> >>),
      D(<< <<"d1">>, <<"s1">> >>),
      F(<< <<"d1">>, <<"s1">>, <<"a", Dot, "wav">> >>),
      F(<< <<"d1">>, <<"s1">>, <<"b", Dot, "wav">> >>),
      F(<< <<"d1">>, <<"s1">>, <<"n", Dot, "txt">> >>),
      D(<< <<"d1">>, <<"s2", Dot, "x">> >>),
      F(<< <<"d1">>, <<"s2", Dot, "x">>, <<"c", Dot, "mp3">> >>),
      D(<< <<"d2">> >>),
      D(<< <<"d2">>, <<"c">> >>),
      F(<< <<"d2">>, <<"c">>, <<"e", Dot, "flac">> >>) }]

Levels == {-1, 0, 1, 2, 3}

\* self.populate_browser(datasets_root, recognized_datasets, level, random)
PopulateBrowserCall ==
    \E level \in Levels, random \in BOOLEAN :
      \E out \in PopulateBrowser([dataset_box |-> dataset_box, speaker_box |-> speaker_box,
                                  utterance_box |-> utterance_box, disabled |-> disabled,
                                  logs |-> logs, log_window |-> log_window,
                                  status |-> "run"],
                                 fs, RecognizedDatasets, level, random) :
        /\ dataset_box' = out.dataset_box
        /\ speaker_box' = out.speaker_box
        /\ utterance_box' = out.utterance_box
        /\ disabled' = out.disabled
        /\ logs' = out.logs
        /\ log_window' = out.log_window
        /\ raised' = (out.status = "raise")
        /\ op' = [name |-> "populate_browser", level |-> level, random |-> random,
                  returned_early |-> (out.status = "return")]
        /\ pre' = [dataset_box |-> dataset_box, speaker_box |-> speaker_box,
                   utterance_box |-> utterance_box]
        /\ UNCHANGED <<pushed, calls, utterance_history, box, record_text, umap_hot,
                       loading_bar, first_time_logs, fs, registered, model_boxes>>

\* the user picks another item of the dataset list or of the speaker list
SelectInBrowser ==
    /\ \/ \E i \in 0..(BoxCount(dataset_box) - 1) :
            /\ i # dataset_box.index
            /\ ~dataset_box.disabled
            /\ dataset_box' = BoxSetCurrentIndex(dataset_box, i)
            /\ UNCHANGED speaker_box
       \/ \E i \in 0..(BoxCount(speaker_box) - 1) :
            /\ i # speaker_box.index
            /\ ~speaker_box.disabled
            /\ speaker_box' = BoxSetCurrentIndex(speaker_box, i)
            /\ UNCHANGED dataset_box
    /\ op' = [name |-> "select"]
    /\ pre' = [dataset_box |-> dataset_box, speaker_box |-> speaker_box,
               utterance_box |-> utterance_box]
    /\ raised' = FALSE
    /\ UNCHANGED <<logs, log_window, pushed, calls, utterance_history, utterance_box,
                   box, disabled, record_text, umap_hot, loading_bar, first_time_logs,
                   fs, registered, model_boxes>>

\* the toolbox is started without datasets_root, on a directory without any
\* recognized dataset, or on a directory with datasets
InitBrowser == \E tree \in {NoRoot, NoFiles, SomeFiles} : Constructed(tree)

NextBrowser == PopulateBrowserCall \/ SelectInBrowser

SpecBrowser == InitBrowser /\ [][NextBrowser]_vars

-----------------------------------------------------------------------------
(* The UMAP flag: calls of draw_umap_projections and of reset_interface.    *)

\* the sizes of the sets of utterances drawn: around min_umap_points and
\* around the number of rows of colormap
PointCounts == {0, min_umap_points - 1, min_umap_points, min_umap_points + 1,
                colormap_rows, colormap_rows + 1, MaxPoints}

\* self.draw_umap_projections(utterances), for a set of n utterances of k
\* different speakers; fail names the half whose projection raises, if any
DrawUmapCall ==
    \E n \in PointCounts, fail \in {"none", "speaker", "emotion"} :
      \E k \in (IF n = 0 THEN {0} ELSE {1, Min(n, colormap_rows), n}) :
        LET st == DrawUmap([umap_hot |-> umap_hot, logs |-> logs,
                            log_window |-> log_window, bar |-> loading_bar,
                            first |-> first_time_logs, raised |-> FALSE], n, k, fail)
        IN  /\ fail # "none" => n >= min_umap_points
            /\ op' = [name |-> "draw_umap_projections", n |-> n, k |-> k, fail |-> fail]
            /\ pre' = [logs |-> logs, umap_hot |-> umap_hot]
            /\ raised' = st.raised
            /\ logs' = st.logs
            /\ log_window' = st.log_window
            /\ umap_hot' = st.umap_hot
            /\ loading_bar' = st.bar
            /\ first_time_logs' = st.first
            /\ UNCHANGED <<pushed, calls, utterance_history, dataset_box, speaker_box,
                           utterance_box, box, disabled, record_text, fs, registered, model_boxes>>

InitUmap == Constructed(NoFiles)

NextUmap == DrawUmapCall \/ ResetInterfaceCall

SpecUmap == InitUmap /\ [][NextUmap]_vars

-----------------------------------------------------------------------------
(* UI.populate_models and the current_*_fpath properties. The tree is the   *)
(* file tree under models_dir, run the name of the directory run_id.        *)

\* models_dir.name
ModelsDirName == <<"saved_models">>

\* the set models_dir.glob(f"{run_id}/<file>") yields: the path, if it exists
GlobFile(tree, run, file) ==
    IF Exists(tree, <<run, file>>) THEN {<<run, file>>} ELSE {}

\* f.parent.name (up = 1) and f.parent.parent.name (up = 2) of a path found
\* under models_dir
ParentName(path, up) ==
    IF Len(path) - up <= 0 THEN ModelsDirName ELSE path[Len(path) - up]

\* [(<name>, f) for f in fpaths], name the name of the up-th parent of f
ModelItems(fpaths, up) ==
    [i \in 1..Len(fpaths) |->
        TupleItem(<<StrValue(ParentName(fpaths[i], up)), PathValue(fpaths[i])>>)]

\* ("Griffin-Lim", None)
GriffinLim == TupleItem(<<StrValue(<<"Griffin-Lim">>), None>>)

\* One kind of model that must be found. st = [speaker_encoder_box,
\* emotion_encoder_box, synthesizer_box, vocoder_box, status]; found is the
\* set the glob yields; the list is filled unless the set is empty, in which
\* case the call raises.
ModelsRequired(st, which, found, up) ==
    IF found = {} THEN {[st EXCEPT !.status = "raise"]}
    ELSE { [st EXCEPT ![which] = out.box,
                      !.status = IF out.raised THEN "raise" ELSE "run"] :
             out \in UNION { RepopulateBox(st[which], ModelItems(fpaths, up), FALSE) :
                               fpaths \in Orders(found) } }

\* the vocoder part, raising like the others when no vocoder file is found
ModelsVocoderRequired(st, tree, run) ==
    ModelsRequired(st, "vocoder_box", GlobFile(tree, run, <<"vocoder", Dot, "pt">>), 1)

\* The vocoder part: the files found, then Griffin-Lim; it never raises.
ModelsVocoder(st, tree, run) ==
    { [st EXCEPT !.vocoder_box = out.box,
                 !.status = IF out.raised THEN "raise" ELSE "run"] :
        out \in UNION { RepopulateBox(st.vocoder_box,
                                      ModelItems(fpaths, 1) \o <<GriffinLim>>, FALSE) :
                          fpaths \in Orders(GlobFile(tree, run, <<"vocoder", Dot, "pt">>)) } }

\* populate_models filling the vocoder list before it looks for the others
PopulateModelsVocoderFirst(st, tree, run) ==
    LET Speaker(x) == ModelsRequired(x, "speaker_encoder_box",
                                     GlobFile(tree, run, <<"encoder", Dot, "pt">>), 1)
        Emotion(x) == ModelsRequired(x, "emotion_encoder_box",
                                     GlobExtension(tree, <<run>>, "hdf5"), 2)
        Synth(x)   == ModelsRequired(x, "synthesizer_box",
                                     GlobFile(tree, run, <<"synthesizer", Dot, "pt">>), 1)
        Vocoder(x) == ModelsVocoder(x, tree, run)
    IN  Then(Then(Then(Then({st}, Vocoder), Speaker), Emotion), Synth)

\* populate_models(run_id, models_dir): the outcomes, one for every order in
\* which the glob can yield the emotion encoder files
PopulateModels(st, tree, run) ==
    LET Speaker(x) == ModelsRequired(x, "speaker_encoder_box",
                                     GlobFile(tree, run, <<"encoder", Dot, "pt">>), 1)
        Emotion(x) == ModelsRequired(x, "emotion_encoder_box",
                                     GlobExtension(tree, <<run>>, "hdf5"), 2)
        Synth(x)   == ModelsRequired(x, "synthesizer_box",
                                     GlobFile(tree, run, <<"synthesizer", Dot, "pt">>), 1)
        Vocoder(x) == ModelsVocoder(x, tree, run)
    IN  Then(Then(Then(Then({st}, Speaker), Emotion), Synth), Vocoder)

\* self.current_vocoder_fpath
CurrentVocoderFpath(b) == BoxItemData(b, b.index)

\* the directory run_id
RunId == <<"run">>

\* A tree under models_dir: the directory run_id with or without encoder.pt,
\* synthesizer.pt and vocoder.pt, and with emo of two emotion encoder files,
\* one right in the directory and one in a subdirectory.
ModelTree(enc, emo, syn, voc) ==
    [given |-> TRUE, entries |->
        {D(<<RunId>>)}
        \cup (IF enc THEN {F(<<RunId, <<"encoder", Dot, "pt">>>>)} ELSE {})
        \cup (IF emo >= 1 THEN {D(<<RunId, <<"emotion">>>>),
                                F(<<RunId, <<"emotion">>, <<"m", Dot, "hdf5">>>>)} ELSE {})
        \cup (IF emo >= 2 THEN {F(<<RunId, <<"w", Dot, "hdf5">>>>)} ELSE {})
        \cup (IF syn THEN {F(<<RunId, <<"synthesizer", Dot, "pt">>>>)} ELSE {})
        \cup (IF voc THEN {F(<<RunId, <<"vocoder", Dot, "pt">>>>)} ELSE {})]

\* self.populate_models(run_id, models_dir)
PopulateModelsCall ==
    \E enc \in BOOLEAN, emo \in 0..2, syn \in BOOLEAN, voc \in BOOLEAN :
      \E out \in PopulateModels([speaker_encoder_box |-> speaker_encoder_box,
                                 emotion_encoder_box |-> emotion_encoder_box,
                                 synthesizer_box |-> synthesizer_box,
                                 vocoder_box |-> vocoder_box, status |-> "run"],
                                ModelTree(enc, emo, syn, voc), RunId) :
        /\ speaker_encoder_box' = out.speaker_encoder_box
        /\ emotion_encoder_box' = out.emotion_encoder_box
        /\ synthesizer_box' = out.synthesizer_box
        /\ vocoder_box' = out.vocoder_box
        /\ raised' = (out.status = "raise")
        /\ op' = [name |-> "populate_models", enc |-> enc, emo |-> emo, syn |-> syn,
                  voc |-> voc]
        /\ pre' = [speaker_encoder_box |-> speaker_encoder_box,
                   emotion_encoder_box |-> emotion_encoder_box,
                   synthesizer_box |-> synthesizer_box, vocoder_box |-> vocoder_box]
        /\ UNCHANGED <<logs, log_window, pushed, calls, utterance_history, dataset_box,
                       speaker_box, utterance_box, box, disabled, record_text, umap_hot,
                       loading_bar, first_time_logs, fs, registered>>

InitModels == Constructed(NoFiles)

NextModels == PopulateModelsCall

SpecModels == InitModels /\ [][NextModels]_vars

-----------------------------------------------------------------------------
(* UI.record_one                                                            *)

\* the longest recording asked for, in seconds
MaxDuration == 3

\* the number of characters of "%d" % n, n >= 0
RECURSIVE Digits(_)
Digits(n) == IF n < 10 THEN 1 ELSE 1 + Digits(n \div 10)

\* "Recording %d seconds of audio" % duration
RecordingMessage(duration) == Text(5000 + 100 * duration, 27 + Digits(duration))

\* "Could not record anything. Is your recording device enabled?"
NoRecordingMessage == Text(6000, 60)

\* "Your device must be connected before you start the toolbox."
DeviceMessage == Text(7000, 59)

\* "Done recording."
DoneMessage == Text(8000, 15)

\* self.log(line) inside another method, on a record with the field logs
LogLine(st, line) == [st EXCEPT !.logs = LogResult(st.logs, line, "newline").logs]

\* set_loading(i, maximum) for i = tenths / 10, the i-th value of
\* np.arange(0, duration, 0.1); i * 100 is tenths * 10 for every i in range
SetLoadingTenths(bar, tenths, maximum) ==
    [BarSetMaximum(BarSetValue(bar, tenths * 10), maximum * 100)
        EXCEPT !.text_visible = (tenths # 0)]

\* for i in np.arange(0, duration, 0.1): self.set_loading(i, duration)
\* (every set_loading leaves the bar's maximum at duration * 100)
RECURSIVE RecordLoop(_, _, _)
RecordLoop(bar, tenths, duration) ==
    IF tenths >= 10 * duration THEN bar
    ELSE LET shown == SetLoadingTenths(bar, tenths, duration)
         IN  IF shown.maximum = duration * 100
             THEN RecordLoop(shown, tenths + 1, duration)
             ELSE shown

\* record_one(sample_rate, duration) on st = [logs, bar, disabled, text];
\* fails says that sd.rec raises. The field returned is None or the samples.
RecordOne(st, duration, fails) ==
    LET started == LogLine([st EXCEPT !.text = "Recording...", !.disabled = TRUE],
                           RecordingMessage(duration))
    IN  IF fails
        THEN [state    |-> LogLine(LogLine(started, NoRecordingMessage), DeviceMessage),
              returned |-> "None"]
        ELSE LET recorded == [started EXCEPT !.bar =
                                SetLoading(RecordLoop(started.bar, 0, duration),
                                           duration, duration)]
             IN  [state    |-> [LogLine(recorded, DoneMessage)
                                   EXCEPT !.text = "Record", !.disabled = FALSE],
                  returned |-> "wav"]

\* self.record_one(sample_rate, duration)
RecordOneCall ==
    \E duration \in 1..MaxDuration, fails \in BOOLEAN :
      LET out == RecordOne([logs |-> logs, bar |-> loading_bar,
                            disabled |-> disabled["record_button"],
                            text |-> record_text], duration, fails)
      IN  /\ logs' = out.state.logs
          /\ log_window' = LogText(out.state.logs)
          /\ loading_bar' = out.state.bar
          /\ disabled' = [disabled EXCEPT !["record_button"] = out.state.disabled]
          /\ record_text' = out.state.text
          /\ raised' = FALSE
          /\ op' = [name |-> "record_one", duration |-> duration, fails |-> fails,
                    returned |-> out.returned]
          /\ pre' = [logs |-> logs, disabled |-> disabled, record_text |-> record_text]
          /\ UNCHANGED <<pushed, calls, utterance_history, dataset_box, speaker_box,
                         utterance_box, box, umap_hot, first_time_logs, fs, registered,
                         model_boxes>>

InitRecord == Constructed(NoFiles)

NextRecord == RecordOneCall

SpecRecord == InitRecord /\ [][NextRecord]_vars

-----------------------------------------------------------------------------
(* Properties of the log buffer, checked under SpecLog.                     *)

\* the last call was log(line, mode) and it returned
LogReturned(mode) == op.name = "log" /\ op.mode = mode /\ ~raised

\* C1: whenever a call of log returns, in any mode and for a line of any
\* length, self.logs holds at most max_log_lines lines.
C1_LogsAtMostMaxLines == Len(logs) <= max_log_lines

\* C1 witness: a line longer than max_log_lines * max_log_width characters was
\* logged in mode newline on a full buffer.
C1_Witness ==
    /\ LogReturned("newline")
    /\ Len(op.line) > max_log_lines * max_log_width
    /\ Len(pre.logs) = max_log_lines
    /\ Len(pushed) > max_log_lines

\* C2: every line of self.logs has at most max_log_width characters, whatever
\* the modes of the calls of log so far.
C2_LinesWithinWidth == \A i \in 1..Len(logs) : Len(logs[i]) <= max_log_width

\* C3: log(line, "newline") with a line of at most max_log_width characters on
\* a buffer of max_log_lines lines removes the first (oldest) line, keeps the
\* other lines in their order and puts the new line last.
C3_EvictsOldestFirst ==
    (/\ LogReturned("newline")
     /\ Len(op.line) <= max_log_width
     /\ Len(pre.logs) = max_log_lines)
    => logs = Tail(pre.logs) \o <<op.line>>

\* C3 witness: such a call on a full buffer whose lines differ from each other
\* and from the new line.
C3_Witness ==
    /\ LogReturned("newline")
    /\ Len(op.line) <= max_log_width
    /\ Len(pre.logs) = max_log_lines
    /\ pre.logs[1] # pre.logs[2]
    /\ pre.logs[2] # pre.logs[3]
    /\ op.line # pre.logs[max_log_lines]
    /\ op.line # pre.logs[1]

\* C4: log in mode append or overwrite on a non-empty buffer changes the last
\* line only (append: the old last line followed by the argument; overwrite:
\* the argument); the number of lines and all other lines stay, and no line
\* is pushed or evicted.
C4_OnlyLastLineChanges ==
    (/\ op.name = "log"
     /\ op.mode \in {"append", "overwrite"}
     /\ pre.logs # <<>>)
    => /\ ~raised
       /\ Len(logs) = Len(pre.logs)
       /\ \A i \in 1..(Len(logs) - 1) : logs[i] = pre.logs[i]
       /\ logs[Len(logs)] = IF op.mode = "append"
                            THEN pre.logs[Len(pre.logs)] \o op.line
                            ELSE op.line
       /\ pushed = <<>>

\* C4 witness: a non-empty text was appended to a non-empty last line, the
\* first line being another one.
C4_Witness ==
    /\ LogReturned("append")
    /\ op.line # <<>>
    /\ pre.logs # <<>>
    /\ pre.logs[Len(pre.logs)] # <<>>
    /\ pre.logs[1] # pre.logs[Len(pre.logs)]

\* C12: once the UI is constructed, self.logs holds exactly max_log_lines
\* (5) lines in every reachable state, whatever calls of log, in any mode,
\* have been made; so no call of log in mode append or overwrite finds the
\* buffer empty, and none raises.
C12_LogsAlwaysFull ==
    /\ Len(logs) = max_log_lines
    /\ op.name = "log" => /\ Len(pre.logs) = max_log_lines
                          /\ ~raised

\* C12 witness: log in mode overwrite returned on a buffer that earlier calls
\* had filled with lines that are not empty.
C12_Witness ==
    /\ LogReturned("overwrite")
    /\ calls >= 2
    /\ \A i \in 1..Len(pre.logs) : pre.logs[i] # <<>>
    /\ Len(logs) = max_log_lines

\* ceil(a / b)
CeilDiv(a, b) == (a + b - 1) \div b

\* C9: a line of L characters, max_log_width < L <= max_log_lines *
\* max_log_width, logged in mode newline is pushed as ceil(L / max_log_width)
\* lines whose concatenation is the line itself.
C9_WrapPreservesText ==
    (/\ LogReturned("newline")
     /\ Len(op.line) > max_log_width
     /\ Len(op.line) <= max_log_lines * max_log_width)
    => /\ Len(pushed) = CeilDiv(Len(op.line), max_log_width)
       /\ Concat(pushed) = op.line

-----------------------------------------------------------------------------
(* Properties of the utterance history, checked under SpecHistory.          *)

\* C5: after any sequence of calls of register_utterance, with new or with
\* repeated utterances, the history holds at most max_saved_utterances entries.
C5_HistoryAtMostMaxSaved == BoxCount(utterance_history) <= max_saved_utterances

\* C5 witness: an utterance was registered into a history that already held
\* max_saved_utterances entries.
C5_Witness ==
    /\ op.name = "register_utterance"
    /\ BoxCount(pre.utterance_history) = max_saved_utterances
    /\ BoxCount(utterance_history) = max_saved_utterances

\* the data of the items of a box, in order
BoxData(b) == [i \in 1..BoxCount(b) |-> b.items[i].data]

\* C6: the history is ordered most recently registered first. After
\* register_utterance(u), u is item 0 and is what selected_utterance returns,
\* the entries held before follow in their order, the one dropped from a full
\* history is its last, and the history is the list of the (at most
\* max_saved_utterances) latest registrations, the newest first.
C6_MostRecentFirst ==
    /\ BoxData(utterance_history)
         = SubSeq(registered, 1, Min(Len(registered), max_saved_utterances))
    /\ op.name = "register_utterance" =>
         /\ utterance_history.items[1] = [text |-> op.utterance.name, data |-> op.utterance]
         /\ utterance_history.index = 0
         /\ SelectedUtterance(utterance_history) = op.utterance
         /\ Tail(utterance_history.items)
              = SubSeq(pre.utterance_history.items, 1,
                       Min(BoxCount(pre.utterance_history), max_saved_utterances - 1))

\* C6 witness: an utterance was registered into a full history in which the
\* user had selected another item than the first.
C6_Witness ==
    /\ op.name = "register_utterance"
    /\ BoxCount(pre.utterance_history) = max_saved_utterances
    /\ pre.utterance_history.index > 0
    /\ utterance_history.index = 0

-----------------------------------------------------------------------------
(* Properties of repopulate_box, checked under SpecBox.                     *)

\* the item an (item, data) pair, or an item that is no tuple, is stored as
StoredItem(item) ==
    [text |-> Str(item.elems[1]),
     data |-> IF Len(item.elems) = 2 THEN item.elems[2] ELSE None]

\* C10: when repopulate_box(box, items, random) returns, the box holds the
\* given items in the given order, each as its text with its data, and none
\* of its earlier entries; it is disabled iff items is empty; for a non-empty
\* items the current index is 0 when random is false and an index of the list
\* when random is true; and its signals are not blocked.
C10_RepopulateResetsBox ==
    (op.name = "repopulate_box" /\ ~raised) =>
        /\ box.items = [i \in 1..Len(op.items) |-> StoredItem(op.items[i])]
        /\ box.disabled = (op.items = <<>>)
        /\ op.items # <<>> => /\ box.index >= 0
                              /\ box.index < Len(op.items)
                              /\ ~op.random => box.index = 0
        /\ ~box.blocked

\* C10 witness: a box that held other entries, and whose signals were left
\* blocked, was repopulated at random with two items, the second one chosen.
C10_Witness ==
    /\ op.name = "repopulate_box" /\ ~raised
    /\ op.random
    /\ Len(op.items) = 2
    /\ box.index = 1
    /\ pre.box.blocked
    /\ pre.box.items # <<>>
    /\ pre.box.items[1] # box.items[1]
    /\ box.items[2].data # None

-----------------------------------------------------------------------------
(* Properties of populate_browser, checked under SpecBrowser.               *)

\* the last call was populate_browser and it ran to its end
BrowserRan == op.name = "populate_browser" /\ ~raised /\ ~op.returned_early

\* the texts of the items of a box, in order
BoxTexts(b) == [i \in 1..BoxCount(b) |-> b.items[i].text]

\* the recognized datasets present under datasets_root, as the dataset list
\* shows them
DatasetTexts ==
    LET present == { i \in 1..Len(RecognizedDatasets) :
                       \E e \in fs.entries : PathStr(e.path) = RecognizedDatasets[i] }
    IN  { RecognizedDatasets[i] : i \in present }

\* the names the speaker list shows for a dataset: the stems of the
\* directories right under the dataset
SpeakerTexts(dataset) ==
    { Stem(e.path[Len(e.path)]) :
        e \in { x \in fs.entries : /\ x.dir
                                   /\ Len(x.path) > 0
                                   /\ SubSeq(x.path, 1, Len(x.path) - 1)
                                        = SplitPath(dataset, <<>>) } }

\* the audio files the utterance list shows for a dataset and a speaker: the
\* files with one of the four extensions anywhere under the speaker's
\* directory, named relative to it
UtteranceTexts(dataset, speaker) ==
    LET root == SplitPath(dataset, <<>>) \o SplitPath(speaker, <<>>)
    IN  { PathStr(SubSeq(e.path, Len(root) + 1, Len(e.path))) :
            e \in { x \in fs.entries :
                      /\ IsDir(fs, root)
                      /\ Len(x.path) > Len(root)
                      /\ SubSeq(x.path, 1, Len(root)) = root
                      /\ \E k \in 1..Len(Extensions) :
                            HasExtension(x.path[Len(x.path)], Extensions[k]) } }

\* a box that was just filled with the given texts
Shows(b, texts) ==
    /\ { b.items[i].text : i \in 1..BoxCount(b) } = texts
    /\ BoxCount(b) = Cardinality(texts)
    /\ b.disabled = (texts = {})
    /\ texts # {} => b.index \in 0..(BoxCount(b) - 1)
    /\ ~b.blocked

\* C7: populate_browser cascades downward only. With level <= 0 and a
\* recognized dataset present, the dataset list is filled anew, then the
\* speaker list from the dataset now selected, then the utterance list from
\* the speaker now selected; with level = 1 the dataset list and its selection
\* stay and the speaker and utterance lists are filled anew; with level = 2
\* the dataset and speaker lists and their selections stay and the utterance
\* list is filled anew.
C7_BrowserCascadesDownward ==
    BrowserRan =>
        /\ op.level <= 0 => /\ Shows(dataset_box, DatasetTexts)
                            /\ DatasetTexts # {}
        /\ op.level >= 1 => dataset_box = pre.dataset_box
        /\ op.level <= 1 => Shows(speaker_box, SpeakerTexts(BoxCurrentText(dataset_box)))
        /\ op.level >= 2 => speaker_box = pre.speaker_box
        /\ op.level <= 2 =>
             Shows(utterance_box, UtteranceTexts(BoxCurrentText(dataset_box),
                                                 BoxCurrentText(speaker_box)))

\* C7 witness: a call with level <= 0 on a browser already filled selected
\* another dataset than before, and the speaker and utterance lists changed
\* with it.
C7_Witness ==
    /\ BrowserRan
    /\ op.level <= 0
    /\ pre.dataset_box.items # <<>>
    /\ BoxCurrentText(dataset_box) # BoxCurrentText(pre.dataset_box)
    /\ pre.speaker_box.items # <<>>
    /\ speaker_box.items # pre.speaker_box.items
    /\ utterance_box.items # <<>>
    /\ utterance_box.items # pre.utterance_box.items

-----------------------------------------------------------------------------
(* Properties of the UMAP flag, checked under SpecUmap.                     *)

\* C8: umap_hot is one-shot. It is false after construction, a call of
\* draw_umap_projections with at least min_umap_points utterances makes it
\* true, a call with fewer leaves it as it is, no operation (reset_interface
\* included) sets it back to false, and the "first time" message has been
\* logged exactly once as soon as the flag is set, never twice.
C8_UmapFlagOneShot ==
    /\ op.name = "__init__" => ~umap_hot
    /\ op.name = "draw_umap_projections" =>
         /\ op.n >= min_umap_points => umap_hot
         /\ op.n < min_umap_points => umap_hot = pre.umap_hot
    /\ op.name \in {"draw_umap_projections", "reset_interface"} =>
         (pre.umap_hot => umap_hot)
    /\ first_time_logs = (IF umap_hot THEN 1 ELSE 0)

-----------------------------------------------------------------------------
(* Properties of populate_models, checked under SpecModels.                 *)

\* the item the vocoder list shows for Griffin-Lim
GriffinLimItem == [text |-> <<"Griffin-Lim">>, data |-> None]

\* C11: populate_models raises exactly when no speaker encoder file, no
\* emotion encoder file or no synthesizer file is found, never for a missing
\* vocoder; when it returns, the vocoder list ends with the entry Griffin-Lim
\* whose path is None, and when no vocoder file was found that entry is the
\* selected one and current_vocoder_fpath is None.
C11_OnlyVocoderIsOptional ==
    op.name = "populate_models" =>
        /\ raised = (~op.enc \/ op.emo = 0 \/ ~op.syn)
        /\ ~raised =>
             /\ BoxCount(vocoder_box) >= 1
             /\ vocoder_box.items[BoxCount(vocoder_box)] = GriffinLimItem
             /\ ~op.voc => /\ BoxCount(vocoder_box) = 1
                           /\ vocoder_box.index = 0
                           /\ CurrentVocoderFpath(vocoder_box) = None

\* C11 witness: a call found the three required kinds but no vocoder, on a
\* panel whose vocoder list had a vocoder file selected.
C11_Witness ==
    /\ op.name = "populate_models"
    /\ ~raised
    /\ ~op.voc
    /\ CurrentVocoderFpath(pre.vocoder_box) # None
    /\ CurrentVocoderFpath(vocoder_box) = None

\* C14 as stated: populate_models is all-or-nothing; when it raises, none of
\* the four model lists differs from what it was before the call.
C14_AllOrNothing ==
    (op.name = "populate_models" /\ raised) =>
        /\ speaker_encoder_box = pre.speaker_encoder_box
        /\ emotion_encoder_box = pre.emotion_encoder_box
        /\ synthesizer_box = pre.synthesizer_box
        /\ vocoder_box = pre.vocoder_box

\* the place, in the order speaker encoder (1), emotion encoder (2),
\* synthesizer (3), of the first kind of which the call found no file
FirstMissing == IF ~op.enc THEN 1 ELSE IF op.emo = 0 THEN 2 ELSE 3

\* C14 as amended: when populate_models raises because a kind of model file is
\* missing, the list of that kind and the lists of the kinds looked up after
\* it (in the order speaker encoder, emotion encoder, synthesizer, vocoder)
\* are as they were before the call, so the vocoder list is never changed and
\* a call that finds no speaker encoder changes nothing; the lists of the
\* kinds looked up before the missing one have been repopulated with the files
\* found.
C14_RaisingKeepsLaterLists ==
    (op.name = "populate_models" /\ raised) =>
        /\ vocoder_box = pre.vocoder_box
        /\ synthesizer_box = pre.synthesizer_box
        /\ FirstMissing <= 2 => emotion_encoder_box = pre.emotion_encoder_box
        /\ FirstMissing <= 1 => speaker_encoder_box = pre.speaker_encoder_box
        /\ FirstMissing >= 2 =>
             /\ speaker_encoder_box.items =
                  <<[text |-> RunId,
                     data |-> PathValue(<<RunId, <<"encoder", Dot, "pt">>>>)]>>
             /\ speaker_encoder_box.index = 0
        /\ FirstMissing >= 3 =>
             /\ BoxCount(emotion_encoder_box) = op.emo
             /\ emotion_encoder_box.index = 0

\* C14 witness: a call raised for a missing synthesizer on a panel whose four
\* lists an earlier call had filled; it changed the emotion encoder list.
C14_Witness ==
    /\ op.name = "populate_models"
    /\ raised
    /\ FirstMissing = 3
    /\ BoxCount(pre.synthesizer_box) = 1
    /\ BoxCount(pre.vocoder_box) = 2
    /\ BoxCount(pre.emotion_encoder_box) = 1
    /\ BoxCount(emotion_encoder_box) = 2

-----------------------------------------------------------------------------
(* Properties of record_one, checked under SpecRecord.                      *)

\* C13: whenever record_one returns, with the samples or, sd.rec having
\* raised, with None, the record button is enabled and its text is "Record".
C13_RecordButtonRestored ==
    op.name = "record_one" =>
        /\ ~disabled["record_button"]
        /\ record_text = "Record"
=============================================================================
